---- MODULE Spec2Model ----
(***************************************************************************)
(* A model of metadata_update.py: the script that walks the cursor         *)
(* paginated "datasets" GraphQL list of openneuro.org, turns every edge    *)
(* into one row of strings and writes the rows, indexed, sorted and        *)
(* de-duplicated by accession number, to metadata.csv.                     *)
(*                                                                         *)
(* Python values are modelled as follows.  A str is a TLA+ string, an int  *)
(* an integer, a list a sequence, a dict a record.  A value that may be    *)
(* None is wrapped: None is <<>> and a present value v is <<v>>.  A local  *)
(* name that may still be unbound uses the same wrapping.  An operator     *)
(* that models code which can raise returns a record with the exception    *)
(* (exc, line) beside its value; exc = "" means that nothing was raised.   *)
(***************************************************************************)
EXTENDS Integers, Sequences, FiniteSets, TLC

VARIABLES
    pc,                     \* where the script is
    srv,                    \* what the server holds for this run
    page,                   \* number of page requests posted so far
    attempts,               \* number of posts made for the current page
    after,                  \* the cursor sent with the current page request
    respLen,                \* len(response["data"]["datasets"]["edges"])
    idx,                    \* number of edges of the page the for loop has bound
    pending,                \* history: edges received and not yet bound by the loop
    ds,                     \* the loop variable ds
    dataset_made_public,    \* locals that survive from one edge to the next
    number_of_subjects,
    modalities_available,
    ages,
    tasks_completed,
    output,                 \* the list of lines
    source,                 \* history: the raw node each line was made from
    seen,                   \* history: accession numbers of the non-null edges read
    csv,                    \* metadata.csv
    writes,                 \* history: number of to_csv calls
    exit_code,              \* exit status of the process
    failure,                \* the uncaught exception that ended the run
    ages_arg, ages_ret,     \* a call of format_ages
    mods_arg, mods_ret      \* a call of format_modalities

vars == <<pc, srv, page, attempts, after, respLen, idx, pending, ds, dataset_made_public,
          number_of_subjects, modalities_available, ages, tasks_completed,
          output, source, seen, csv, writes, exit_code, failure,
          ages_arg, ages_ret, mods_arg, mods_ret>>

-----------------------------------------------------------------------------
(* Bounds of the model *)

\* longest subject-age list handed to format_ages
MaxAgeList == 2
\* longest modality list handed to format_modalities
MaxModList == 2
\* most page requests a run posts: the server's list ends by then
MaxPages == 2
\* most non-null edges the paging server returns in one run
MaxRows == 3
\* longest page of the record server
MaxStream == 4

\* the page size the termination test compares with
PageSize == 25

-----------------------------------------------------------------------------
(* Python values *)

None == <<>>
Some(v) == <<v>>
IsNone(o) == o = <<>>
Val(o) == o[1]

NoExc == [exc |-> "", line |-> 0]
Exc(name, line) == [exc |-> name, line |-> line]

-----------------------------------------------------------------------------
(* str operations *)

\* the characters the model's strings use, in code point order
Chars == " ,-./0123456789:ABCDEFGHIJKLMNOPQRSTUVWXYZ_abcdefghijklmnopqrstuvwxyz"
LowerChars == " ,-./0123456789:abcdefghijklmnopqrstuvwxyz_abcdefghijklmnopqrstuvwxyz"

CharAt(s, i) == SubSeq(s, i, i)
Ord(c) == CHOOSE i \in 1..Len(Chars) : CharAt(Chars, i) = c

\* sub in s
Contains(s, sub) ==
    \E i \in 1..(Len(s) - Len(sub) + 1) : SubSeq(s, i, i + Len(sub) - 1) = sub

\* s.find(sub) + 1, for a sub that occurs in s
IndexOf(s, sub) ==
    CHOOSE i \in 1..(Len(s) - Len(sub) + 1) :
        /\ SubSeq(s, i, i + Len(sub) - 1) = sub
        /\ \A j \in 1..(i - 1) : SubSeq(s, j, j + Len(sub) - 1) # sub

\* s.rfind(sub) + 1, for a sub that occurs in s
LastIndexOf(s, sub) ==
    CHOOSE i \in 1..(Len(s) - Len(sub) + 1) :
        /\ SubSeq(s, i, i + Len(sub) - 1) = sub
        /\ \A j \in (i + 1)..(Len(s) - Len(sub) + 1) : SubSeq(s, j, j + Len(sub) - 1) # sub

RECURSIVE Lower(_)
Lower(s) ==
    IF Len(s) = 0 THEN ""
    ELSE CharAt(LowerChars, Ord(CharAt(s, 1))) \o Lower(SubSeq(s, 2, Len(s)))

\* a < b for str
RECURSIVE StrLess(_, _)
StrLess(a, b) ==
    IF Len(b) = 0 THEN FALSE
    ELSE IF Len(a) = 0 THEN TRUE
    ELSE IF CharAt(a, 1) = CharAt(b, 1)
         THEN StrLess(SubSeq(a, 2, Len(a)), SubSeq(b, 2, Len(b)))
         ELSE Ord(CharAt(a, 1)) < Ord(CharAt(b, 1))

\* ", ".join(list)
RECURSIVE Join(_)
Join(list) ==
    IF Len(list) = 0 THEN ""
    ELSE IF Len(list) = 1 THEN list[1]
    ELSE list[1] \o ", " \o Join(Tail(list))

Digits == "0123456789"
\* str(n) for an int n >= 0
RECURSIVE IntStr(_)
IntStr(n) ==
    IF n < 10 THEN CharAt(Digits, n + 1)
    ELSE IntStr(n \div 10) \o CharAt(Digits, (n % 10) + 1)

\* int(s) for a str of decimal digits; <<>> when s is not one
RECURSIVE ParseNat(_)
ParseNat(s) ==
    IF Len(s) = 0 THEN None
    ELSE LET c == CharAt(s, Len(s)) IN
         IF ~Contains(Digits, c) THEN None
         ELSE IF Len(s) = 1 THEN Some(IndexOf(Digits, c) - 1)
         ELSE LET rest == ParseNat(SubSeq(s, 1, Len(s) - 1)) IN
              IF IsNone(rest) THEN None
              ELSE Some(Val(rest) * 10 + IndexOf(Digits, c) - 1)

\* "%02d" % n
Pad2(n) == IF n < 10 THEN "0" \o IntStr(n) ELSE IntStr(n)

-----------------------------------------------------------------------------
(* The lookup tables *)

scan_dict ==
    [k \in {"anatomical", "structural", "functional", "behavioral", "diffusion", "perfusion"} |->
        CASE k = "anatomical" -> "anat"
          [] k = "structural" -> "anat"
          [] k = "functional" -> "func"
          [] k = "behavioral" -> "beh"
          [] k = "diffusion" -> "dwi"
          [] k = "perfusion" -> "perf"]

\* age_dict.items(), in insertion order
age_dict ==
    << [lo |-> 0, hi |-> 10, label |-> "0-10"],
       [lo |-> 11, hi |-> 17, label |-> "11-17"],
       [lo |-> 18, hi |-> 25, label |-> "18-25"],
       [lo |-> 26, hi |-> 34, label |-> "26-34"],
       [lo |-> 35, hi |-> 50, label |-> "35-50"],
       [lo |-> 51, hi |-> 65, label |-> "51-65"],
       [lo |-> 66, hi |-> 1000, label |-> "66+"] >>

-----------------------------------------------------------------------------
(* format_modalities *)

\* list.remove(x) for an x that is in the list: the first occurrence goes
RECURSIVE RemoveFirst(_, _)
RemoveFirst(list, x) ==
    IF list[1] = x THEN Tail(list)
    ELSE <<list[1]>> \o RemoveFirst(Tail(list), x)

\* the body of "for m in all_modalities" for one m
ModalityEntry(m) ==
    IF Contains(m, "MRI")
    THEN IF ~Contains(m, "MRI_")
         THEN [exc |-> "IndexError", line |-> 44, val |-> ""]
         ELSE LET i == IndexOf(m, "MRI_")
                  key == Lower(SubSeq(m, i + 4, Len(m)))
              IN IF key \notin DOMAIN scan_dict
                 THEN [exc |-> "KeyError", line |-> 44, val |-> ""]
                 ELSE [exc |-> "", line |-> 0, val |-> "MRI - " \o scan_dict[key]]
    ELSE [exc |-> "", line |-> 0, val |-> m]

\* the for loop of format_modalities over the list left after the remove
RECURSIVE ModalityLoop(_, _)
ModalityLoop(list, acc) ==
    IF Len(list) = 0 THEN [exc |-> "", line |-> 0, list |-> acc]
    ELSE LET e == ModalityEntry(list[1]) IN
         IF e.exc # "" THEN [exc |-> e.exc, line |-> e.line, list |-> acc]
         ELSE ModalityLoop(Tail(list), Append(acc, e.val))

\* modalities_available_list when format_modalities reaches its return
ModalitiesAvailableList(all_modalities) ==
    IF \E i \in 1..Len(all_modalities) : Contains(all_modalities[i], "MRI_")
    THEN IF ~(\E i \in 1..Len(all_modalities) : all_modalities[i] = "MRI")
         THEN [exc |-> "ValueError", line |-> 41, list |-> <<>>]
         ELSE ModalityLoop(RemoveFirst(all_modalities, "MRI"), <<>>)
    ELSE [exc |-> "", line |-> 0, list |-> all_modalities]

format_modalities(all_modalities) ==
    LET r == ModalitiesAvailableList(all_modalities) IN
    [exc |-> r.exc, line |-> r.line, list |-> r.list,
     val |-> IF r.exc = "" THEN Join(r.list) ELSE ""]

-----------------------------------------------------------------------------
(* format_ages *)

\* sorted(list) for a list of int
RECURSIVE SortInts(_)
SortInts(list) ==
    IF Len(list) = 0 THEN <<>>
    ELSE LET m == CHOOSE i \in 1..Len(list) : \A j \in 1..Len(list) : list[i] <= list[j]
         IN <<list[m]>> \o SortInts(SubSeq(list, 1, m - 1) \o SubSeq(list, m + 1, Len(list)))

\* [x["age"] for x in raw_age_list if x["age"]]: None and 0 are falsy
RECURSIVE TruthyAges(_)
TruthyAges(list) ==
    IF Len(list) = 0 THEN <<>>
    ELSE LET a == list[1].age IN
         (IF IsNone(a) \/ Val(a) = 0 THEN <<>> ELSE <<Val(a)>>) \o TruthyAges(Tail(list))

\* the loop over age_dict.items(), from entry k on
RECURSIVE AgeLabels(_, _)
AgeLabels(age_list, k) ==
    IF k > Len(age_dict) THEN <<>>
    ELSE (IF \E i \in 1..Len(age_list) :
                /\ age_list[i] >= age_dict[k].lo
                /\ age_list[i] <= age_dict[k].hi
                /\ age_list[i] # 0      \* any() tests the truth of x itself
          THEN <<age_dict[k].label>> ELSE <<>>) \o AgeLabels(age_list, k + 1)

\* raw_age_list is None or a list of {"age": int or None}
format_ages(raw_age_list) ==
    IF IsNone(raw_age_list) \/ Len(Val(raw_age_list)) = 0 THEN ""
    ELSE Join(AgeLabels(SortInts(TruthyAges(Val(raw_age_list))), 1))

-----------------------------------------------------------------------------
(* format_name, code_bool *)

\* name is None or a str
format_name(name) ==
    IF IsNone(name) \/ Len(Val(name)) = 0 THEN ""
    ELSE LET n == Val(name) IN
         IF ~Contains(n, ",")
         THEN IF Contains(n, " ")
              THEN LET i == LastIndexOf(n, " ")
                   IN SubSeq(n, i + 1, Len(n)) \o ", " \o SubSeq(n, 1, i - 1)
              ELSE n \o ", "
         ELSE n

\* code_bool(parent, field) for a key the response carries: value is None or a bool
code_bool(value) ==
    IF IsNone(value) THEN "n/a"
    ELSE IF Val(value) THEN "Yes" ELSE "No"

-----------------------------------------------------------------------------
(* Dates, paths, sizes *)

IsLeap(y) == (y % 4 = 0 /\ y % 100 # 0) \/ y % 400 = 0
DaysIn(y, m) ==
    IF m = 2 THEN (IF IsLeap(y) THEN 29 ELSE 28)
    ELSE IF m \in {4, 6, 9, 11} THEN 30 ELSE 31

\* datetime.strptime(s[:10], "%Y-%m-%d") for a zero-padded date; <<>> for ValueError
Strptime(s) ==
    LET t == SubSeq(s, 1, IF Len(s) < 10 THEN Len(s) ELSE 10) IN
    IF Len(t) # 10 \/ CharAt(t, 5) # "-" \/ CharAt(t, 8) # "-" THEN None
    ELSE LET y == ParseNat(SubSeq(t, 1, 4))
             m == ParseNat(SubSeq(t, 6, 7))
             d == ParseNat(SubSeq(t, 9, 10))
         IN IF IsNone(y) \/ IsNone(m) \/ IsNone(d) THEN None
            ELSE IF Val(y) < 1 \/ Val(m) < 1 \/ Val(m) > 12 THEN None
            ELSE IF Val(d) < 1 \/ Val(d) > DaysIn(Val(y), Val(m)) THEN None
            ELSE Some([year |-> Val(y), month |-> Val(m), day |-> Val(d)])

\* dt.strftime("%Y-%m-%d")
Strftime(dt) == IntStr(dt.year) \o "-" \o Pad2(dt.month) \o "-" \o Pad2(dt.day)

\* os.path.join(a, b) of posixpath
PathJoin2(a, b) ==
    IF Len(b) > 0 /\ CharAt(b, 1) = "/" THEN b
    ELSE IF Len(a) = 0 \/ CharAt(a, Len(a)) = "/" THEN a \o b
    ELSE a \o "/" \o b

GiB == 1024 * 1024 * 1024

\* round(size / (1024**3), 2) in hundredths, for 0 < size < 2^31: the quotient is
\* exact in a double, and round() rounds its exact value half to even
SizeGbHundredths(size) ==
    LET q == size \div GiB
        r == size % GiB
        \* r * 100 / 2^30 = r * 25 / 2^28, computed in two halves of r
        rh == r \div (2^14)
        rl == r % (2^14)
        t == rh * 25 + ((rl * 25) \div (2^14))
        low == (rl * 25) % (2^14)
        f == t \div (2^14)
        rem == (t % (2^14)) * (2^14) + low
        half == 2^27
        up == rem > half \/ (rem = half /\ f % 2 = 1)
    IN q * 100 + f + (IF up THEN 1 ELSE 0)

\* str(x) of the float x = h / 100
FloatStr(h) ==
    IntStr(h \div 100) \o "." \o
    (IF h % 10 = 0 THEN IntStr((h % 100) \div 10) ELSE Pad2(h % 100))

\* "" if x is None else str(x), for x a str / an int
StrOfStr(o) == IF IsNone(o) THEN "" ELSE Val(o)
StrOfInt(o) == IF IsNone(o) THEN "" ELSE IntStr(Val(o))

-----------------------------------------------------------------------------
(* The per-edge body of the loop, lines 144-216 *)

header ==
    << "accession_number", "dataset_url", "dataset_name", "made_public",
       "most_recent_snapshot", "num_subjects", "modalities", "dx_status", "ages",
       "tasks", "num_trials", "study_design", "domain_studied", "longitudinal",
       "processed_data", "species", "nondefaced_consent", "affirmed_defaced",
       "doi_of_papers_from_source_data_lab",
       "doi_of_paper_published_using_openneuro_dataset", "senior_author", "size_gb" >>

\* the column of the table with the given name
Col(name) == CHOOSE i \in 1..Len(header) : header[i] = name

\* What the locals that outlive an iteration hold: each is <<>> while unbound.
Locals(dmp, nos, ma, ag, tc) ==
    [dataset_made_public |-> dmp, number_of_subjects |-> nos,
     modalities_available |-> ma, ages |-> ag, tasks_completed |-> tc]

\* The result of the body for one edge: the exception that escaped it (if any),
\* the locals as the body leaves them, and the line it appended.
Body(e, l, row) == [exc |-> e.exc, line |-> e.line, locals |-> l, row |-> row]

\* lines 191-215: line_raw, each element through "" if x is None else str(x)
Line(node, ls, md, l) ==
    << StrOfStr(node.id),
       \* lines 155-160
       PathJoin2(PathJoin2(PathJoin2("https://openneuro.org/datasets/", Val(node.id)),
                           "versions"), Val(ls.tag)),
       \* line 161
       StrOfStr(Val(ls.dataset).name),
       Val(l.dataset_made_public),
       \* lines 162-165
       Strftime(Val(Strptime(Val(ls.created)))),
       Val(l.number_of_subjects),
       Val(l.modalities_available),
       StrOfStr(md.dxStatus),
       Val(l.ages),
       Val(l.tasks_completed),
       StrOfInt(md.trialCount),
       StrOfStr(md.studyDesign),
       StrOfStr(md.studyDomain),
       \* lines 181-183
       IF md.studyLongitudinal = Some("Longitudinal") THEN "Yes" ELSE "No",
       code_bool(md.dataProcessed),
       StrOfStr(md.species),
       code_bool(md.affirmedConsent),
       code_bool(md.affirmedDefaced),
       StrOfStr(md.associatedPaperDOI),
       StrOfStr(md.openneuroPaperDOI),
       \* line 190
       format_name(Val(ls.description).SeniorAuthor),
       \* lines 166-169
       IF IsNone(ls.size) \/ Val(ls.size) = 0 THEN ""
       ELSE FloatStr(SizeGbHundredths(Val(ls.size))) >>

\* lines 177-216, with the locals l as lines 144-176 left them
RestOfBody(node, ls, l) ==
    IF IsNone(Val(ls.dataset).metadata) THEN Body(Exc("TypeError", 177), l, <<>>)
    ELSE IF IsNone(ls.description) THEN Body(Exc("TypeError", 190), l, <<>>)
    ELSE IF IsNone(l.dataset_made_public) THEN Body(Exc("NameError", 195), l, <<>>)
    ELSE IF IsNone(l.number_of_subjects) THEN Body(Exc("NameError", 197), l, <<>>)
    ELSE Body(NoExc, l, Line(node, ls, Val(Val(ls.dataset).metadata), l))

\* lines 172-176, fm being what format_modalities returned or raised
AfterModalities(node, ls, sf, fm, l) ==
    IF fm.exc # "" THEN Body(fm, l, <<>>)
    ELSE IF IsNone(sf.tasks) THEN Body(Exc("TypeError", 176), l, <<>>)
    ELSE RestOfBody(node, ls,
            [l EXCEPT !.modalities_available = Some(fm.val),
                      !.ages = Some(format_ages(sf.subjectMetadata)),
                      !.tasks_completed = Some(Join(Val(sf.tasks)))])

\* lines 170-176: the summary-derived locals are assigned only under the if
SummaryFields(node, ls, l) ==
    IF IsNone(ls.summary) THEN RestOfBody(node, ls, l)
    ELSE IF IsNone(Val(ls.summary).subjects) THEN Body(Exc("TypeError", 171), l, <<>>)
    ELSE IF IsNone(Val(ls.summary).secondaryModalities) \/ IsNone(Val(ls.summary).modalities)
    THEN Body(Exc("TypeError", 173), l, <<>>)
    ELSE AfterModalities(node, ls, Val(ls.summary),
            format_modalities(Val(Val(ls.summary).secondaryModalities)
                              \o Val(Val(ls.summary).modalities)),
            [l EXCEPT !.number_of_subjects = Some(IntStr(Len(Val(Val(ls.summary).subjects))))])

\* lines 155-176, with the locals l as lines 148-154 left them
AfterMadePublic(node, ls, l) ==
    IF IsNone(node.id) \/ IsNone(ls.tag) THEN Body(Exc("TypeError", 155), l, <<>>)
    ELSE IF IsNone(ls.dataset) THEN Body(Exc("TypeError", 161), l, <<>>)
    ELSE IF IsNone(ls.created) THEN Body(Exc("TypeError", 163), l, <<>>)
    ELSE IF IsNone(Strptime(Val(ls.created))) THEN Body(Exc("ValueError", 162), l, <<>>)
    ELSE SummaryFields(node, ls, l)

\* lines 148-154: a None publishDate raises the TypeError that is caught, and
\* dataset_made_public keeps what it held
MadePublic(node, ls, l, parsed) ==
    IF IsNone(node.publishDate) THEN AfterMadePublic(node, ls, l)
    ELSE IF IsNone(parsed) THEN Body(Exc("ValueError", 149), l, <<>>)
    ELSE AfterMadePublic(node, ls, [l EXCEPT !.dataset_made_public = Some(Strftime(Val(parsed)))])

\* lines 144-216 for a non-null edge whose node is given
ProcessEdge(node, l) ==
    IF IsNone(node.latestSnapshot) THEN Body(Exc("TypeError", 144), l, <<>>)
    ELSE MadePublic(node, Val(node.latestSnapshot), l,
                    IF IsNone(node.publishDate) THEN None ELSE Strptime(Val(node.publishDate)))

-----------------------------------------------------------------------------
(* The DataFrame calls of lines 254-257 *)

\* the index value of a row after set_index("accession_number")
IndexOfRow(row) == row[1]

\* df.sort_index(): the rows in ascending index order.  The default sort kind
\* promises no order among rows of equal index, so every such order is a result.
sort_index(rows) ==
    LET n == Len(rows)
        perms == {p \in [1..n -> 1..n] : \A i, j \in 1..n : i # j => p[i] # p[j]}
    IN { [i \in 1..n |-> rows[p[i]]] : p \in
            {q \in perms : \A i \in 1..(n - 1) :
                ~StrLess(IndexOfRow(rows[q[i + 1]]), IndexOfRow(rows[q[i]]))} }

\* the frame as it is without the groupby: duplicates stay
NoGroupby(rows) == rows

\* df.groupby(df.index).first() of a frame sorted by index: per index value the
\* first row (no cell is null: every cell is a str)
RECURSIVE groupby_first(_)
groupby_first(rows) ==
    IF Len(rows) <= 1 THEN rows
    ELSE LET rest == groupby_first(Tail(rows)) IN
         IF IndexOfRow(rows[1]) = IndexOfRow(rows[2]) THEN <<rows[1]>> \o Tail(rest)
         ELSE <<rows[1]>> \o rest

-----------------------------------------------------------------------------
(* What the server returns *)

MetaA ==
    [trialCount |-> Some(120), studyDesign |-> Some("block"),
     studyDomain |-> Some("attention"), studyLongitudinal |-> Some("Longitudinal"),
     dataProcessed |-> Some(TRUE), species |-> Some("Human"),
     associatedPaperDOI |-> Some("10.1000/a1"), openneuroPaperDOI |-> None,
     dxStatus |-> Some("Healthy"), affirmedConsent |-> Some(FALSE),
     affirmedDefaced |-> None]

MetaB ==
    [MetaA EXCEPT !.trialCount = None, !.studyLongitudinal = Some("Cross-Sectional"),
                  !.dataProcessed = None, !.affirmedDefaced = Some(TRUE)]

SummaryA ==
    [subjects |-> Some(<<"01", "02">>), modalities |-> Some(<<"MRI">>),
     secondaryModalities |-> Some(<<"MRI_functional">>),
     subjectMetadata |-> Some(<<[age |-> Some(9)], [age |-> Some(40)]>>),
     tasks |-> Some(<<"flanker", "rest">>), dataProcessed |-> None]

SummaryB ==
    [subjects |-> Some(<<"01">>), modalities |-> Some(<<"EEG">>),
     secondaryModalities |-> Some(<<>>), subjectMetadata |-> None,
     tasks |-> Some(<<>>), dataProcessed |-> None]

SnapshotA ==
    [tag |-> Some("1.0.1"), created |-> Some("2021-05-06T07:08:09.000Z"),
     size |-> Some(1610612736),
     dataset |-> Some([name |-> Some("Flanker task"), metadata |-> Some(MetaA)]),
     description |-> Some([SeniorAuthor |-> Some("Jane Q Public")]),
     summary |-> Some(SummaryA)]

SnapshotB ==
    [tag |-> Some("2.0.0"), created |-> Some("2019-12-31T23:59:59.000Z"),
     size |-> None,
     dataset |-> Some([name |-> Some("Resting EEG"), metadata |-> Some(MetaB)]),
     description |-> Some([SeniorAuthor |-> None]),
     summary |-> Some(SummaryB)]

\* two complete records
NodeA == [id |-> Some("ds000002"), publishDate |-> Some("2020-03-04T10:11:12.000Z"),
          latestSnapshot |-> Some(SnapshotA)]
NodeB == [id |-> Some("ds000001"), publishDate |-> Some("2018-01-02T03:04:05.000Z"),
          latestSnapshot |-> Some(SnapshotB)]
\* a second record of accession number ds000001, whose snapshot has no summary
NodeX == [id |-> Some("ds000001"), publishDate |-> Some("2018-01-02T03:04:05.000Z"),
          latestSnapshot |-> Some([SnapshotA EXCEPT !.summary = None])]
\* a record that was never published
NodeY == [id |-> Some("ds000003"), publishDate |-> None,
          latestSnapshot |-> Some(SnapshotB)]
\* records with one nested value missing
NodeNoDescription == [NodeA EXCEPT !.latestSnapshot = Some([SnapshotA EXCEPT !.description = None])]
NodeNoMetadata ==
    [NodeA EXCEPT !.latestSnapshot =
        Some([SnapshotA EXCEPT !.dataset = Some([name |-> Some("Flanker task"), metadata |-> None])])]
NodeNoCreated == [NodeA EXCEPT !.latestSnapshot = Some([SnapshotA EXCEPT !.created = None])]
NodeNoSubjects ==
    [NodeA EXCEPT !.latestSnapshot =
        Some([SnapshotA EXCEPT !.summary = Some([SummaryA EXCEPT !.subjects = None])])]

\* The paging server returns pages of every length up to the page size, null
\* edges among them, and ends its list by page MaxPages; the record server
\* returns one short page of records of every kind.
Servers == {"paging", "records"}

Nodes(s) ==
    IF s = "paging" THEN {NodeA, NodeB, NodeX}
    ELSE {NodeA, NodeB, NodeX, NodeY, NodeNoDescription, NodeNoMetadata,
          NodeNoCreated, NodeNoSubjects}

\* the edge counts page number p can have
PageLens(s, p) ==
    IF s = "paging"
    THEN {n \in 0..PageSize : p < MaxPages \/ n < PageSize}
    ELSE 0..MaxStream

\* the edges the server can have put at position i of page p: an edge carries
\* its position as its cursor.  The paging server has MaxRows records to give
\* and fills the rest of its pages with null edges.
Edges(s, p, i, out) ==
    LET nodes == IF s = "paging" /\ Len(out) >= MaxRows THEN {} ELSE Nodes(s)
    IN (IF s = "paging" THEN {None} ELSE {})
       \cup {Some([cursor |-> <<p, i>>, node |-> n]) : n \in nodes}

-----------------------------------------------------------------------------
(* The script *)

\* metadata.csv as the run found it: the script has not opened it
NoFile == None

\* the script's state before line 135
NotStarted ==
    /\ page = 0
    /\ attempts = 0
    /\ after = None
    /\ respLen = 0
    /\ idx = 0
    /\ pending = 0
    /\ ds = None                   \* unbound; read only after a full page bound it
    /\ dataset_made_public = None
    /\ number_of_subjects = None
    /\ modalities_available = None
    /\ ages = None
    /\ tasks_completed = None
    /\ output = <<>>
    /\ source = <<>>
    /\ seen = {}
    /\ csv = NoFile
    /\ writes = 0
    /\ exit_code = -1
    /\ failure = NoExc

Init ==
    /\ pc = "start"
    /\ srv \in Servers
    /\ NotStarted
    /\ ages_arg = None
    /\ ages_ret = None
    /\ mods_arg = <<>>
    /\ mods_ret = None

\* an exception nobody catches ends the process with status 1
Fail(e) ==
    /\ pc' = "failed"
    /\ failure' = e
    /\ exit_code' = 1

\* requests.post(...) at line postLine followed by response.json() at line
\* jsonLine, for page number p with cursor cur.  Either call can raise; nothing
\* catches it and nothing posts the request again.
Post(p, cur, postLine, jsonLine) ==
    /\ page' = p
    /\ attempts' = 1
    /\ after' = cur
    /\ \/ /\ \E n \in PageLens(srv, p) :
               /\ respLen' = n
               /\ pending' = pending + n
          /\ idx' = 0
          /\ pc' = "loop"
          /\ UNCHANGED <<failure, exit_code>>
       \/ /\ \E e \in {[exc |-> "ConnectionError", line |-> postLine],
                       [exc |-> "JSONDecodeError", line |-> jsonLine]} : Fail(e)
          /\ UNCHANGED <<respLen, pending, idx>>

\* lines 135-138
FirstRequest ==
    /\ pc = "start"
    /\ Post(1, None, 135, 136)
    /\ UNCHANGED <<srv, ds, dataset_made_public, number_of_subjects, modalities_available,
                   ages, tasks_completed, output, source, seen, csv, writes,
                   ages_arg, ages_ret, mods_arg, mods_ret>>

\* lines 144-216 for the node of a non-null edge, b being what the body did
RunBody(node, b) ==
    /\ seen' = seen \cup {StrOfStr(node.id)}
    /\ dataset_made_public' = b.locals.dataset_made_public
    /\ number_of_subjects' = b.locals.number_of_subjects
    /\ modalities_available' = b.locals.modalities_available
    /\ ages' = b.locals.ages
    /\ tasks_completed' = b.locals.tasks_completed
    /\ IF b.exc # ""
       THEN /\ Fail(Exc(b.exc, b.line))
            /\ UNCHANGED <<output, source>>
       ELSE /\ output' = Append(output, b.row)
            /\ source' = Append(source, node)
            /\ UNCHANGED <<pc, failure, exit_code>>

\* lines 141-216: the for loop binds the next edge and runs its body
BindEdge ==
    /\ pc = "loop"
    /\ idx < respLen
    /\ \E e \in Edges(srv, page, idx + 1, output) :
        /\ ds' = e
        /\ idx' = idx + 1
        /\ pending' = pending - 1
        /\ IF IsNone(e)
           THEN UNCHANGED <<pc, failure, exit_code, dataset_made_public, number_of_subjects,
                            modalities_available, ages, tasks_completed, output, source, seen>>
           ELSE RunBody(Val(e).node,
                        ProcessEdge(Val(e).node,
                                    Locals(dataset_made_public, number_of_subjects,
                                           modalities_available, ages, tasks_completed)))
    /\ UNCHANGED <<srv, page, attempts, after, respLen, csv, writes,
                   ages_arg, ages_ret, mods_arg, mods_ret>>

\* the termination test with <= for <
BreaksOnFullPage(n) == n <= PageSize

\* line 218: the test that leaves the while loop
Breaks(n) == n < PageSize

\* lines 218-228: the for loop is exhausted; break, or request the page after ds
NextPage ==
    /\ pc = "loop"
    /\ idx = respLen
    /\ IF Breaks(respLen)
       THEN /\ pc' = "build"
            /\ UNCHANGED <<page, attempts, after, respLen, idx, pending, failure, exit_code>>
       ELSE IF IsNone(ds)
            THEN /\ Fail(Exc("TypeError", 221))
                 /\ UNCHANGED <<page, attempts, after, respLen, idx, pending>>
            ELSE Post(page + 1, Some(Val(ds).cursor), 223, 228)
    /\ UNCHANGED <<srv, ds, dataset_made_public, number_of_subjects, modalities_available,
                   ages, tasks_completed, output, source, seen, csv, writes,
                   ages_arg, ages_ret, mods_arg, mods_ret>>

\* lines 254-257: the table that to_csv is given
Table(rows) == {groupby_first(sorted) : sorted \in sort_index(rows)}

\* lines 254-258
WriteCsv ==
    /\ pc = "build"
    /\ \E table \in Table(output) : csv' = Some(table)
    /\ writes' = writes + 1
    /\ pc' = "done"
    /\ exit_code' = 0
    /\ UNCHANGED <<srv, page, attempts, after, respLen, idx, pending, ds, dataset_made_public,
                   number_of_subjects, modalities_available, ages, tasks_completed,
                   output, source, seen, failure, ages_arg, ages_ret, mods_arg, mods_ret>>

Next == FirstRequest \/ BindEdge \/ NextPage \/ WriteCsv

Spec == Init /\ [][Next]_vars

-----------------------------------------------------------------------------
(* format_ages and format_modalities on their own *)

SeqsUpTo(S, n) == UNION {[1..k -> S] : k \in 0..n}

AgeValues ==
    {None} \cup {Some(a) : a \in {0, 1, 10, 11, 17, 18, 25, 26, 34, 35, 50, 51, 65, 66, 1000, 1001}}
AgeInputs == {None} \cup {Some(l) : l \in SeqsUpTo({[age |-> a] : a \in AgeValues}, MaxAgeList)}

ModalityValues == {"MRI", "EEG", "MRI_functional", "MRI_diffusion", "MRI_angiography"}
ModalityLists == SeqsUpTo(ModalityValues, MaxModList)

InitAges ==
    /\ pc = "call"
    /\ srv = "none"
    /\ NotStarted
    /\ ages_arg \in AgeInputs
    /\ ages_ret = None
    /\ mods_arg = <<>>
    /\ mods_ret = None

\* line 175: ages = format_ages(summary_field["subjectMetadata"])
CallFormatAges ==
    /\ pc = "call"
    /\ ages_ret' = Some(format_ages(ages_arg))
    /\ pc' = "returned"
    /\ UNCHANGED <<srv, page, attempts, after, respLen, idx, pending, ds, dataset_made_public,
                   number_of_subjects, modalities_available, ages, tasks_completed,
                   output, source, seen, csv, writes, exit_code, failure,
                   ages_arg, mods_arg, mods_ret>>

SpecAges == InitAges /\ [][CallFormatAges]_vars

\* mods_arg is <<secondaryModalities, modalities>>
InitModalities ==
    /\ pc = "call"
    /\ srv = "none"
    /\ NotStarted
    /\ ages_arg = None
    /\ ages_ret = None
    /\ mods_arg \in ModalityLists \X ModalityLists
    /\ mods_ret = None

\* lines 172-174: format_modalities(secondaryModalities + modalities)
CallFormatModalities ==
    /\ pc = "call"
    /\ mods_ret' = Some(format_modalities(mods_arg[1] \o mods_arg[2]))
    /\ pc' = "returned"
    /\ UNCHANGED <<srv, page, attempts, after, respLen, idx, pending, ds, dataset_made_public,
                   number_of_subjects, modalities_available, ages, tasks_completed,
                   output, source, seen, csv, writes, exit_code, failure,
                   ages_arg, ages_ret, mods_arg>>

SpecModalities == InitModalities /\ [][CallFormatModalities]_vars

-----------------------------------------------------------------------------
(* The claims *)

\* C1: when the for loop over a page is exhausted, the while loop is left if and
\* only if the page had fewer than PageSize edges, and a page of exactly PageSize
\* edges is always followed by one more page request.
C1_FullPageRequestsNext ==
    [][(pc = "loop" /\ idx = respLen) =>
            /\ (pc' = "build") <=> (respLen < PageSize)
            /\ (respLen = PageSize) => (page' = page + 1)]_vars

\* C2: a run that fails fatally on a page request has posted that page's request
\* three times.
C2_ThreeAttempts ==
    (pc = "failed" /\ failure.exc \in {"ConnectionError", "JSONDecodeError"}) => attempts = 3

\* C3: metadata.csv is written at most once, only by a run that left the loop on
\* a short page with every received edge processed and that exits with status
\* 0; a run that failed fatally has not touched the file.
C3_WriteOnlyAfterShortPage ==
    /\ writes <= 1
    /\ (csv # NoFile) <=> (writes = 1)
    /\ (pc = "failed") => (writes = 0 /\ csv = NoFile /\ exit_code = 1)
    /\ (writes = 1) => /\ pc = "done"
                       /\ failure = NoExc
                       /\ exit_code = 0
                       /\ respLen < PageSize
                       /\ idx = respLen
                       /\ pending = 0

\* a page request failed after rows had been collected, and the file is untouched
C3_Witness ==
    /\ pc = "failed"
    /\ failure.exc = "ConnectionError"
    /\ page = 2
    /\ Len(output) > 0
    /\ csv = NoFile

\* C4: the table a completed run writes has exactly one row per accession number
\* among the non-null edges read, and its rows ascend by accession number.
C4_OneRowPerAccessionSorted ==
    (pc = "done") =>
        LET table == Val(csv) IN
        /\ {IndexOfRow(table[i]) : i \in 1..Len(table)} = seen
        /\ Len(table) = Cardinality(seen)
        /\ \A i \in 1..(Len(table) - 1) : StrLess(IndexOfRow(table[i]), IndexOfRow(table[i + 1]))

\* three rows were collected, the larger accession number first and the smaller
\* one twice, and two rows were written
C4_Witness ==
    /\ pc = "done"
    /\ Len(output) = 3
    /\ IndexOfRow(output[1]) = "ds000002"
    /\ IndexOfRow(output[2]) = IndexOfRow(output[3])
    /\ output[2] # output[3]
    /\ Len(Val(csv)) = 2

\* C5: no run aborts inside the body that derives the fields of a non-null edge,
\* and a field whose source value is missing is empty in the row (made_public of
\* a record without publishDate).
C5_FieldFaultAbsorbed ==
    /\ ~(pc = "failed" /\ failure.line \in 144..216)
    /\ \A i \in 1..Len(output) :
          IsNone(source[i].publishDate) => output[i][Col("made_public")] = ""

\* C6: two lines made from the same raw record are equal in every column.
C6_RowDependsOnRecordOnly ==
    \A i, j \in 1..Len(output) : (source[i] = source[j]) => (output[i] = output[j])

\* C7: num_subjects of a line is empty when the record's summary is null and the
\* length of the record's own subject list otherwise, and a record without a
\* summary that comes first still gets its line.
C7_NumSubjectsOfOwnRecord ==
    /\ \A i \in 1..Len(output) :
          LET summary == Val(source[i].latestSnapshot).summary IN
          output[i][Col("num_subjects")] =
              IF IsNone(summary) THEN "" ELSE IntStr(Len(Val(Val(summary).subjects)))
    /\ ~(pc = "failed" /\ failure = Exc("NameError", 197))

\* C8: binding a null edge adds no line and does not end the loop, and after a
\* full page whose last edge is null the next page is still requested.
C8_NullEdgesSkipped ==
    [][/\ (pc = "loop" /\ idx' = idx + 1 /\ ds' = None) => (output' = output /\ pc' = "loop")
       /\ (pc = "loop" /\ idx = respLen /\ respLen = PageSize /\ ds = None)
              => (page' = page + 1)]_vars

\* the seven inclusive buckets of the claim, the last one open above
BucketHolds(k, a) == a >= age_dict[k].lo /\ (k = Len(age_dict) \/ a <= age_dict[k].hi)
RECURSIVE BucketLabels(_, _)
BucketLabels(list, k) ==
    IF k > Len(age_dict) THEN <<>>
    ELSE (IF \E i \in 1..Len(list) : BucketHolds(k, Val(list[i].age))
          THEN <<age_dict[k].label>> ELSE <<>>) \o BucketLabels(list, k + 1)

\* C9: for a list of integer ages >= 0, format_ages returns the labels of the
\* buckets that hold at least one age, in bucket order, joined by ", "; for an
\* empty or absent list it returns the empty string.
C9_BucketLabelsOfAges ==
    (pc = "returned" /\ ~IsNone(ages_ret)) =>
        IF IsNone(ages_arg) THEN Val(ages_ret) = ""
        ELSE (\A i \in 1..Len(Val(ages_arg)) : ~IsNone(Val(ages_arg)[i].age))
                => Val(ages_ret) = Join(BucketLabels(Val(ages_arg), 1))

\* C10: format_modalities never raises; with a sub-type entry present the result
\* holds no umbrella entry and one entry per other input entry, and without one
\* the result is the input.
C10_ModalitiesTotal ==
    (pc = "returned" /\ ~IsNone(mods_ret)) =>
        LET all == mods_arg[1] \o mods_arg[2]
            r == Val(mods_ret)
        IN /\ r.exc = ""
           /\ IF \E i \in 1..Len(all) : Contains(all[i], "MRI_")
              THEN /\ \A i \in 1..Len(r.list) : r.list[i] # "MRI"
                   /\ Len(r.list) = Cardinality({i \in 1..Len(all) : all[i] # "MRI"})
              ELSE r.list = all

====
